---- MODULE Spec2Model ----
(***************************************************************************)
(* A model of yuque-squirrel, the incremental backup tool for Yuque:        *)
(*   src/src/store.rs   MainMetadata: needs_backup, track_backup            *)
(*   src/src/net.rs     the four requests and the rate gate `cool`          *)
(*   src/src/main.rs    main: the chunked fan-out over books and documents  *)
(*                                                                         *)
(* The program runs on a current-thread tokio runtime (main.rs:174), so a   *)
(* task runs alone from one `.await` that suspends it to the next. Every    *)
(* action below is one such stretch: it starts where an awaited timer,      *)
(* response or file operation completes and ends where the task awaits      *)
(* again, returns or fails.                                                 *)
(***************************************************************************)
EXTENDS Integers, Sequences, FiniteSets, TLC

\* ------------------------------------------------------------------ bounds
\* config.limit ranges over 0..MaxLimit
MaxLimit == 1
\* the books of one `repos` response
MaxBooks == 2
\* the entries of the `doc_metas` responses of one run, all books together
MaxDocs == 2
\* document ids are 1..MaxId
MaxId == 2
\* updated_at timestamps are 1..MaxStamp
MaxStamp == 2
\* direct calls of track_backup on one store (StoreSpec)
MaxCalls == 3
\* the timestamps of those direct calls are 1..MaxCallStamp
MaxCallStamp == 3
\* the same-host links found in one document body
MaxUrls == 1
\* the file names those links end in are 1..MaxName
MaxName == 1
\* runs of the program, one after the other on the same directory
MaxRuns == 2
\* `chunks(8)` at main.rs:180 and main.rs:192. The fan-out is the same for
\* every chunk size; the model keeps the size small so that a listing
\* longer than one chunk stays within reach.
ChunkSize == 2
\* the books of one `repos` response where the chunks of books are studied
MaxChunkBooks == 3
\* the entries of one run's listings where the chunks of documents are studied
MaxChunkDocs == 3
\* Duration::from_secs(1) at net.rs:111, in clock ticks
Second == 1

Ids == 1..MaxId
Stamps == 1..MaxStamp
Names == 1..MaxName
\* the books a `repos` response can name, under any of the sizes below
Books == 1..(IF MaxBooks > MaxChunkBooks THEN MaxBooks ELSE MaxChunkBooks)

\* RawDocMeta (main.rs:74-79)
Metas == [id : Ids, updated_at : Stamps]
NoMeta == [id |-> 0, updated_at |-> 0]
\* the arguments of the direct calls of track_backup and needs_backup
CallMetas == [id : Ids, updated_at : 1..MaxCallStamp]

\* the names of the same-host links of a body, in the order the regex
\* finds them (main.rs:211-220)
RECURSIVE SeqsUpTo(_, _)
SeqsUpTo(S, n) ==
  IF n = 0 THEN {<<>>}
  ELSE LET shorter == SeqsUpTo(S, n - 1)
       IN  shorter \cup {Append(s, x) : s \in {t \in shorter : Len(t) = n - 1}, x \in S}
UrlSeqs == SeqsUpTo(Names, MaxUrls)

Range(s) == {s[i] : i \in DOMAIN s}
Min(a, b) == IF a < b THEN a ELSE b

VARIABLES
  cfgLimit,   \* config.limit (config.rs:16)
  cap,        \* the sizes of this behaviour: [books, docs, urls, runs]
  run,        \* the number of this run
  mpc,        \* main: start, cooling, listing, books, saved, failed, killed
  mseen,      \* the window `repos` read in cool, while it sleeps
  limit,      \* Context.limit: [requests, win] (main.rs:31, main.rs:157)
  age,        \* ticks since the window limit.win started, up to Second
  grants,     \* calls of cool that returned during the current tick
  meta,       \* Context.meta: [items] (main.rs:32, store.rs:9-12)
  persisted,  \* metadata.json as the next load reads it
  loaded,     \* the items this run loaded at its start
  repos,      \* the number of books `repos` returned
  next,       \* the first book of the next chunk
  quota,      \* the entries the listings of this run may still return
  bk,         \* per book of the current chunk: [pc, seen, left]
  dt,         \* per book: the document tasks of its current chunk
  fs,         \* doc<id>.json in this run's backup directory: [st, ver]
  files,      \* files/<name> in this run's backup directory
  listed,     \* the metadata the listings of this run returned so far
  fetches,    \* per metadata, the document GETs this run sent
  failed,     \* the metadata whose task failed before track_backup
  clashed,    \* the metadata whose create_new found doc<id>.json in place
  tracked     \* the metadata passed to track_backup in this run, in order

vars == <<cfgLimit, cap, run, mpc, mseen, limit, age, grants, meta, persisted,
          loaded, repos, next, quota, bk, dt, fs, files, listed, fetches,
          failed, clashed, tracked>>

\* the sizes of the behaviours of Spec: up to MaxBooks books per run with
\* up to MaxDocs listed documents in all, MaxUrls links per body, MaxRuns runs
SpecCap == [books |-> MaxBooks, docs |-> MaxDocs, urls |-> MaxUrls, runs |-> MaxRuns]

\* ------------------------------------------------------------- store.rs
EmptyItems == [d \in {} |-> 0]
\* MainMetadata::default (store.rs:8-12). The books index is written at
\* main.rs:181-184 and read nowhere in the program: the model leaves it out.
EmptyStore == [items |-> EmptyItems]

\* needs_backup with = for >=: a document listed with any other timestamp
\* than the stored one is due, an older one too
NeedsBackupChanged(items, m) ==
  ~ (m.id \in DOMAIN items /\ items[m.id].last_updated = m.updated_at)

\* needs_backup with > for >=: an unchanged document is fetched again
NeedsBackupStrict(items, m) ==
  ~ (m.id \in DOMAIN items /\ items[m.id].last_updated > m.updated_at)

\* MainMetadata::needs_backup (store.rs:26-31)
NeedsBackup(items, m) ==
  ~ (m.id \in DOMAIN items /\ items[m.id].last_updated >= m.updated_at)

\* track_backup that pushes the timestamp but leaves last_updated of a
\* record it finds as it was
TrackBackupNoWatermark(items, m) ==
  IF m.id \in DOMAIN items
    THEN [items EXCEPT ![m.id].backups = Append(@, m.updated_at)]
    ELSE (m.id :> [last_updated |-> m.updated_at,
                   backups |-> <<m.updated_at>>]) @@ items

\* track_backup that moves last_updated of a record it finds and pushes
\* nothing to its backups
TrackBackupNoPush(items, m) ==
  IF m.id \in DOMAIN items
    THEN [items EXCEPT ![m.id].last_updated = m.updated_at]
    ELSE (m.id :> [last_updated |-> m.updated_at,
                   backups |-> <<m.updated_at>>]) @@ items

\* track_backup that inserts a new record whether or not one exists
TrackBackupInsert(items, m) ==
  [d \in DOMAIN items \cup {m.id} |->
     IF d = m.id
       THEN [last_updated |-> m.updated_at, backups |-> <<m.updated_at>>]
       ELSE items[d]]

\* MainMetadata::track_backup (store.rs:34-48)
TrackBackup(items, m) ==
  IF m.id \in DOMAIN items
    THEN [items EXCEPT ![m.id] =
            [last_updated |-> m.updated_at,
             backups |-> Append(@.backups, m.updated_at)]]
    ELSE (m.id :> [last_updated |-> m.updated_at,
                   backups |-> <<m.updated_at>>]) @@ items

\* ---------------------------------------------------------- net.rs: cool
(***************************************************************************)
(* Context.limit is (requests, i): a count and the Instant its window       *)
(* started. The code only ever compares instants in two ways: whether       *)
(* i + 1s has passed, and whether limit.1 is still the i a sleeper read.    *)
(* The model keeps, instead of the Instant, the ordinal `win` of the        *)
(* window and the time `age` since the current one started. A window that   *)
(* is no longer current was replaced at or after its own deadline, so its   *)
(* sleepers' deadline has passed.                                           *)
(***************************************************************************)

\* net.rs:107-109: the branch of cool that returns without suspending
Cool(lim) ==
  IF lim.requests < cfgLimit
    THEN [lim |-> [lim EXCEPT !.requests = @ + 1], granted |-> TRUE]
    ELSE [lim |-> lim, granted |-> FALSE]

\* join_all polls the futures it was given in order (main.rs:185, 193):
\* n calls of cool, one after the other, with nothing in between
RECURSIVE PollCool(_, _)
PollCool(lim, n) ==
  IF n = 0 THEN [lim |-> lim, granted |-> <<>>]
  ELSE LET r == PollCool(lim, n - 1)
           c == Cool(r.lim)
       IN  [lim |-> c.lim, granted |-> Append(r.granted, c.granted)]

\* net.rs:111: sleep_until(i + 1s) has completed for a sleeper that read seen
CanWake(seen) == seen # limit.win \/ age >= Second

\* net.rs:112-114: the window is replaced only if nobody replaced it since
AfterWake(seen) ==
  IF limit.win = seen THEN [requests |-> 1, win |-> limit.win + 1] ELSE limit

AgeAfterWake(seen) == IF limit.win = seen THEN 0 ELSE age

\* the status line of a response: reqwest's send returns Ok for any status
\* and `json` decodes the body whatever the status was (net.rs:54-57)
Statuses == {"2xx", "other"}

\* ------------------------------------------------------------ task records
IdleBook == [pc |-> "idle", seen |-> 0, left |-> 0]
EndTask(pc) ==
  [pc |-> pc, m |-> NoMeta, seen |-> 0, ver |-> 0, urls |-> <<>>, status |-> "none"]
NoFile == [st |-> "absent", ver |-> 0]

Active(b) == bk[b].pc \in {"cooling", "listing", "docs"}
Finished(t) == t.pc \in {"done", "failed"}
AllFinished(b) == \A k \in DOMAIN dt[b] : Finished(dt[b][k])

\* the state a run starts in, given the metadata file it finds
RunStart(file) ==
  /\ mpc = "start"
  /\ mseen = 0
  /\ limit = [requests |-> 0, win |-> 0]
  /\ age = 0
  /\ grants = 0
  /\ meta = file
  /\ loaded = file.items
  /\ repos = 0
  /\ next = 1
  /\ quota = cap.docs
  /\ bk = [b \in Books |-> IdleBook]
  /\ dt = [b \in Books |-> <<>>]
  /\ fs = [d \in Ids |-> NoFile]
  /\ files = [n \in Names |-> "absent"]
  /\ listed = {}
  /\ fetches = [m \in Metas |-> 0]
  /\ failed = {}
  /\ clashed = {}
  /\ tracked = <<>>

\* main.rs:143-176: no metadata.json yet, so the store is the default one
Init ==
  /\ cfgLimit \in 0..MaxLimit
  /\ cap = SpecCap
  /\ run = 1
  /\ persisted = EmptyStore
  /\ RunStart(EmptyStore)

\* --------------------------------------------------------- main.rs: main
\* time passes while the runtime runs
Tick ==
  /\ mpc \in {"cooling", "listing", "books"}
  /\ age' = Min(age + 1, Second)
  /\ grants' = 0
  /\ UNCHANGED <<cfgLimit, cap, run, mpc, mseen, limit, meta, persisted,
                 loaded, repos, next, quota, bk, dt, fs, files, listed,
                 fetches, failed, clashed, tracked>>

\* main.rs:179, net.rs:25-34: repos calls cool, then sends its GET
ReposCall ==
  /\ mpc = "start"
  /\ LET c == Cool(limit)
     IN  /\ limit' = c.lim
         /\ mpc' = IF c.granted THEN "listing" ELSE "cooling"
         /\ mseen' = IF c.granted THEN 0 ELSE limit.win
         /\ grants' = IF c.granted THEN grants + 1 ELSE grants
  /\ UNCHANGED <<cfgLimit, cap, run, age, meta, persisted, loaded, repos,
                 next, quota, bk, dt, fs, files, listed, fetches, failed,
                 clashed, tracked>>

\* net.rs:111-115, 28-34: the sleep of repos' cool ends and the GET is sent
ReposWake ==
  /\ mpc = "cooling"
  /\ CanWake(mseen)
  /\ limit' = AfterWake(mseen)
  /\ age' = AgeAfterWake(mseen)
  /\ grants' = grants + 1
  /\ mpc' = "listing"
  /\ mseen' = 0
  /\ UNCHANGED <<cfgLimit, cap, run, meta, persisted, loaded, repos, next,
                 quota, bk, dt, fs, files, listed, fetches, failed, clashed,
                 tracked>>

\* net.rs:34-39, main.rs:179: the response of repos. A failure leaves
\* block_on with the error (main.rs:237) and main returns before main.rs:239.
ReposResponse ==
  /\ mpc = "listing"
  /\ \/ /\ mpc' = "failed"
        /\ UNCHANGED repos
     \/ \E n \in 0..cap.books :
          /\ repos' = n
          /\ mpc' = "books"
  /\ UNCHANGED <<cfgLimit, cap, run, mseen, limit, age, grants, meta,
                 persisted, loaded, next, quota, bk, dt, fs, files, listed,
                 fetches, failed, clashed, tracked>>

\* the next chunk of books started without waiting for the join_all of the
\* chunk before it
StartBookChunkEarly ==
  /\ mpc = "books"
  /\ next <= repos
  /\ LET last == Min(next + ChunkSize - 1, repos)
         p == PollCool(limit, last - next + 1)
     IN  /\ limit' = p.lim
         /\ grants' = grants + Cardinality({i \in DOMAIN p.granted : p.granted[i]})
         /\ bk' = [b \in Books |->
                     IF b \in next..last
                       THEN IF p.granted[b - next + 1]
                              THEN [pc |-> "listing", seen |-> 0, left |-> 0]
                              ELSE [pc |-> "cooling", seen |-> limit.win, left |-> 0]
                       ELSE bk[b]]
         /\ next' = last + 1
  /\ UNCHANGED <<cfgLimit, cap, run, mpc, mseen, age, meta, persisted, loaded,
                 repos, quota, dt, fs, files, listed, fetches, failed,
                 clashed, tracked>>

\* main.rs:180-186: the next chunk of books: join_all polls each book's
\* task up to its first await, the cool of doc_metas (net.rs:64)
StartBookChunk ==
  /\ mpc = "books"
  /\ \A b \in Books : ~Active(b)
  /\ next <= repos
  /\ LET last == Min(next + ChunkSize - 1, repos)
         p == PollCool(limit, last - next + 1)
     IN  /\ limit' = p.lim
         /\ grants' = grants + Cardinality({i \in DOMAIN p.granted : p.granted[i]})
         /\ bk' = [b \in Books |->
                     IF b \in next..last
                       THEN IF p.granted[b - next + 1]
                              THEN [pc |-> "listing", seen |-> 0, left |-> 0]
                              ELSE [pc |-> "cooling", seen |-> limit.win, left |-> 0]
                       ELSE bk[b]]
         /\ next' = last + 1
  /\ UNCHANGED <<cfgLimit, cap, run, mpc, mseen, age, meta, persisted, loaded,
                 repos, quota, dt, fs, files, listed, fetches, failed,
                 clashed, tracked>>

\* net.rs:111-115, 66-72: the sleep of doc_metas' cool ends, the GET is sent
MetasWake(b) ==
  /\ bk[b].pc = "cooling"
  /\ CanWake(bk[b].seen)
  /\ limit' = AfterWake(bk[b].seen)
  /\ age' = AgeAfterWake(bk[b].seen)
  /\ grants' = grants + 1
  /\ bk' = [bk EXCEPT ![b] = [pc |-> "listing", seen |-> 0, left |-> 0]]
  /\ UNCHANGED <<cfgLimit, cap, run, mpc, mseen, meta, persisted, loaded,
                 repos, next, quota, dt, fs, files, listed, fetches, failed,
                 clashed, tracked>>

\* net.rs:72-85, main.rs:186: the response of doc_metas. A failure ends the
\* book's task with the error. The listing has n entries; the entries of a
\* chunk are drawn when the loop at main.rs:192 reaches the chunk, which is
\* the first time the code looks at them.
MetasResponse(b) ==
  /\ bk[b].pc = "listing"
  /\ \/ /\ bk' = [bk EXCEPT ![b] = [pc |-> "failed", seen |-> 0, left |-> 0]]
        /\ UNCHANGED quota
     \/ \E n \in 0..quota :
          /\ bk' = [bk EXCEPT ![b] = [pc |-> "docs", seen |-> 0, left |-> n]]
          /\ quota' = quota - n
  /\ UNCHANGED <<cfgLimit, cap, run, mpc, mseen, limit, age, grants, meta,
                 persisted, loaded, repos, next, dt, fs, files, listed,
                 fetches, failed, clashed, tracked>>

\* a document task right after join_all's first poll (main.rs:199, net.rs:44)
NewTask(m, granted) ==
  [pc |-> IF granted THEN "fetching" ELSE "cooling", m |-> m,
   seen |-> IF granted THEN 0 ELSE limit.win, ver |-> 0, urls |-> <<>>,
   status |-> "none"]

\* the chunk with no filter by needs_backup: every listed document is fetched
StartDocChunkNoFilter(b) ==
  /\ bk[b].pc = "docs"
  /\ AllFinished(b)
  /\ bk[b].left > 0
  /\ LET n == Min(ChunkSize, bk[b].left)
     IN  \E c \in [1..n -> Metas] :
           LET f == c
               p == PollCool(limit, Len(f))
           IN  /\ limit' = p.lim
               /\ grants' = grants + Cardinality({i \in DOMAIN f : p.granted[i]})
               /\ dt' = [dt EXCEPT ![b] =
                           [i \in DOMAIN f |-> NewTask(f[i], p.granted[i])]]
               /\ fetches' = [m \in Metas |-> fetches[m] +
                                Cardinality({i \in DOMAIN f : p.granted[i] /\ f[i] = m})]
               /\ listed' = listed \cup Range(c)
               /\ bk' = [bk EXCEPT ![b].left = @ - n]
  /\ UNCHANGED <<cfgLimit, cap, run, mpc, mseen, age, meta, persisted, loaded,
                 repos, next, quota, fs, files, failed, clashed, tracked>>

\* main.rs:192-199: the next chunk of a book's listing: the filter by
\* needs_backup runs over the whole chunk while join_all collects it, then
\* each task is polled up to its first await, the cool of doc (net.rs:44).
StartDocChunk(b) ==
  /\ bk[b].pc = "docs"
  /\ AllFinished(b)
  /\ bk[b].left > 0
  /\ LET n == Min(ChunkSize, bk[b].left)
     IN  \E c \in [1..n -> Metas] :
           LET f == SelectSeq(c, LAMBDA m : NeedsBackup(meta.items, m))
               p == PollCool(limit, Len(f))
           IN  /\ limit' = p.lim
               /\ grants' = grants + Cardinality({i \in DOMAIN f : p.granted[i]})
               /\ dt' = [dt EXCEPT ![b] =
                           [i \in DOMAIN f |-> NewTask(f[i], p.granted[i])]]
               /\ fetches' = [m \in Metas |-> fetches[m] +
                                Cardinality({i \in DOMAIN f : p.granted[i] /\ f[i] = m})]
               /\ listed' = listed \cup Range(c)
               /\ bk' = [bk EXCEPT ![b].left = @ - n]
  /\ UNCHANGED <<cfgLimit, cap, run, mpc, mseen, age, meta, persisted, loaded,
                 repos, next, quota, fs, files, failed, clashed, tracked>>

\* main.rs:231-232: the loop over the chunks ends and the book's task returns
FinishBook(b) ==
  /\ bk[b].pc = "docs"
  /\ AllFinished(b)
  /\ bk[b].left = 0
  /\ bk' = [bk EXCEPT ![b] = [pc |-> "done", seen |-> 0, left |-> 0]]
  /\ dt' = [dt EXCEPT ![b] = <<>>]
  /\ UNCHANGED <<cfgLimit, cap, run, mpc, mseen, limit, age, grants, meta,
                 persisted, loaded, repos, next, quota, fs, files, listed,
                 fetches, failed, clashed, tracked>>

\* ------------------------------------------- main.rs:198-228: one document
Task(b, k) == dt[b][k]
At(b, k, pc) == k \in DOMAIN dt[b] /\ dt[b][k].pc = pc
SetTask(b, k, t) == dt' = [dt EXCEPT ![b][k] = t]

\* net.rs:111-115, 46-54: the sleep of doc's cool ends and the GET is sent
DocWake(b, k) ==
  /\ At(b, k, "cooling")
  /\ CanWake(Task(b, k).seen)
  /\ limit' = AfterWake(Task(b, k).seen)
  /\ age' = AgeAfterWake(Task(b, k).seen)
  /\ grants' = grants + 1
  /\ SetTask(b, k, [Task(b, k) EXCEPT !.pc = "fetching", !.seen = 0])
  /\ fetches' = [fetches EXCEPT ![Task(b, k).m] = @ + 1]
  /\ UNCHANGED <<cfgLimit, cap, run, mpc, mseen, meta, persisted, loaded,
                 repos, next, quota, bk, fs, files, listed, failed, clashed,
                 tracked>>

\* a failed fetch that leaves block_on with the error: the run ends unsaved
DocResponseAborts(b, k) ==
  /\ At(b, k, "fetching")
  /\ \/ /\ SetTask(b, k, EndTask("failed"))
        /\ failed' = failed \cup {Task(b, k).m}
        /\ mpc' = "failed"
     \/ /\ \E v \in {s \in Stamps : s >= Task(b, k).m.updated_at} :
             \E r \in Statuses :
               SetTask(b, k, [Task(b, k) EXCEPT !.pc = "creating", !.ver = v,
                                               !.status = r])
        /\ UNCHANGED <<failed, mpc>>
  /\ UNCHANGED <<cfgLimit, cap, run, mseen, limit, age, grants, meta,
                 persisted, loaded, repos, next, quota, bk, fs, files, listed,
                 fetches, clashed, tracked>>

\* net.rs:54-59, main.rs:199-205: the response of doc. A failure is printed
\* and ends the task. Otherwise the body is the document as the server has
\* it now: its updated_at is the listed one or a later one. The links of
\* the body are drawn where the code first reads them (main.rs:211).
\* The status r of the response is looked at nowhere: it is kept in the
\* task up to the create_new that follows the return of doc.
DocResponse(b, k) ==
  /\ At(b, k, "fetching")
  /\ \/ /\ SetTask(b, k, EndTask("failed"))
        /\ failed' = failed \cup {Task(b, k).m}
     \/ /\ \E v \in {s \in Stamps : s >= Task(b, k).m.updated_at} :
             \E r \in Statuses :
               SetTask(b, k, [Task(b, k) EXCEPT !.pc = "creating", !.ver = v,
                                               !.status = r])
        /\ UNCHANGED failed
  /\ UNCHANGED <<cfgLimit, cap, run, mpc, mseen, limit, age, grants, meta,
                 persisted, loaded, repos, next, quota, bk, fs, files, listed,
                 fetches, clashed, tracked>>

\* a file in place is opened instead of refused: the task goes on with it
DocCreatedShared(b, k) ==
  /\ At(b, k, "creating")
  /\ \/ /\ SetTask(b, k, EndTask("failed"))
        /\ failed' = failed \cup {Task(b, k).m}
        /\ UNCHANGED <<fs, clashed>>
     \/ /\ fs' = [fs EXCEPT ![Task(b, k).m.id] =
                   IF @.st = "absent" THEN [st |-> "created", ver |-> 0] ELSE @]
        /\ SetTask(b, k, [Task(b, k) EXCEPT !.pc = "writing",
                                            !.status = "none"])
        /\ UNCHANGED <<failed, clashed>>
  /\ UNCHANGED <<cfgLimit, cap, run, mpc, mseen, limit, age, grants, meta,
                 persisted, loaded, repos, next, quota, bk, files, listed,
                 fetches, tracked>>

\* File::create for File::create_new: a file in place is truncated
DocCreatedOverwrite(b, k) ==
  /\ At(b, k, "creating")
  /\ \/ /\ SetTask(b, k, EndTask("failed"))
        /\ failed' = failed \cup {Task(b, k).m}
        /\ UNCHANGED <<fs, clashed>>
     \/ /\ fs' = [fs EXCEPT ![Task(b, k).m.id] = [st |-> "created", ver |-> 0]]
        /\ SetTask(b, k, [Task(b, k) EXCEPT !.pc = "writing",
                                            !.status = "none"])
        /\ UNCHANGED <<failed, clashed>>
  /\ UNCHANGED <<cfgLimit, cap, run, mpc, mseen, limit, age, grants, meta,
                 persisted, loaded, repos, next, quota, bk, files, listed,
                 fetches, tracked>>

\* main.rs:202-206: File::create_new(doc<id>.json) completes: an error if
\* the file exists, else an error for another reason or the empty file
DocCreated(b, k) ==
  /\ At(b, k, "creating")
  /\ \/ /\ fs[Task(b, k).m.id].st # "absent"
        /\ SetTask(b, k, EndTask("failed"))
        /\ failed' = failed \cup {Task(b, k).m}
        /\ clashed' = clashed \cup {Task(b, k).m}
        /\ UNCHANGED fs
     \/ /\ fs[Task(b, k).m.id].st = "absent"
        /\ SetTask(b, k, EndTask("failed"))
        /\ failed' = failed \cup {Task(b, k).m}
        /\ UNCHANGED <<fs, clashed>>
     \/ /\ fs[Task(b, k).m.id].st = "absent"
        /\ fs' = [fs EXCEPT ![Task(b, k).m.id] = [st |-> "created", ver |-> 0]]
        /\ SetTask(b, k, [Task(b, k) EXCEPT !.pc = "writing",
                                            !.status = "none"])
        /\ UNCHANGED <<failed, clashed>>
  /\ UNCHANGED <<cfgLimit, cap, run, mpc, mseen, limit, age, grants, meta,
                 persisted, loaded, repos, next, quota, bk, files, listed,
                 fetches, tracked>>

\* main.rs:206-207: write_all completes
DocWritten(b, k) ==
  /\ At(b, k, "writing")
  /\ \/ /\ SetTask(b, k, EndTask("failed"))
        /\ failed' = failed \cup {Task(b, k).m}
        /\ UNCHANGED fs
     \/ /\ fs' = [fs EXCEPT ![Task(b, k).m.id] =
                    [st |-> "written", ver |-> Task(b, k).ver]]
        /\ SetTask(b, k, [Task(b, k) EXCEPT !.pc = "flushing"])
        /\ UNCHANGED failed
  /\ UNCHANGED <<cfgLimit, cap, run, mpc, mseen, limit, age, grants, meta,
                 persisted, loaded, repos, next, quota, bk, files, listed,
                 fetches, clashed, tracked>>

\* main.rs:211-222, net.rs:89-95: the loop over the links u of the body
\* that are still to fetch, up to the GET of the first one; the task reads
\* neither m nor the document's updated_at any more
AfterTrack(u) ==
  IF u = <<>> THEN EndTask("done")
  ELSE [EndTask("res_fetching") EXCEPT !.urls = u]

\* the result of flush ignored: track_backup is called though flush failed
DocFlushedTracksAnyway(b, k) ==
  /\ At(b, k, "flushing")
  /\ \/ /\ SetTask(b, k, EndTask("failed"))
        /\ failed' = failed \cup {Task(b, k).m}
        /\ meta' = [meta EXCEPT !.items = TrackBackup(@, Task(b, k).m)]
        /\ tracked' = Append(tracked, Task(b, k).m)
        /\ UNCHANGED fs
     \/ /\ fs' = [fs EXCEPT ![Task(b, k).m.id].st = "flushed"]
        /\ meta' = [meta EXCEPT !.items = TrackBackup(@, Task(b, k).m)]
        /\ tracked' = Append(tracked, Task(b, k).m)
        /\ \E u \in {x \in UrlSeqs : Len(x) <= cap.urls} :
             SetTask(b, k, AfterTrack(u))
        /\ UNCHANGED failed
  /\ UNCHANGED <<cfgLimit, cap, run, mpc, mseen, limit, age, grants,
                 persisted, loaded, repos, next, quota, bk, files, listed,
                 fetches, clashed>>

\* metadata.json written after every track_backup
DocFlushedSaves(b, k) ==
  /\ At(b, k, "flushing")
  /\ \/ /\ SetTask(b, k, EndTask("failed"))
        /\ failed' = failed \cup {Task(b, k).m}
        /\ UNCHANGED <<fs, meta, tracked, persisted>>
     \/ /\ fs' = [fs EXCEPT ![Task(b, k).m.id].st = "flushed"]
        /\ meta' = [meta EXCEPT !.items = TrackBackup(@, Task(b, k).m)]
        /\ tracked' = Append(tracked, Task(b, k).m)
        /\ persisted' = meta'
        /\ \E u \in {x \in UrlSeqs : Len(x) <= cap.urls} :
             SetTask(b, k, AfterTrack(u))
        /\ UNCHANGED failed
  /\ UNCHANGED <<cfgLimit, cap, run, mpc, mseen, limit, age, grants, loaded,
                 repos, next, quota, bk, files, listed, fetches, clashed>>

\* main.rs:207-222: flush completes, track_backup is called and the first
\* resource, if any, is requested
DocFlushed(b, k) ==
  /\ At(b, k, "flushing")
  /\ \/ /\ SetTask(b, k, EndTask("failed"))
        /\ failed' = failed \cup {Task(b, k).m}
        /\ UNCHANGED <<fs, meta, tracked>>
     \/ /\ fs' = [fs EXCEPT ![Task(b, k).m.id].st = "flushed"]
        /\ meta' = [meta EXCEPT !.items = TrackBackup(@, Task(b, k).m)]
        /\ tracked' = Append(tracked, Task(b, k).m)
        /\ \E u \in {x \in UrlSeqs : Len(x) <= cap.urls} :
             SetTask(b, k, AfterTrack(u))
        /\ UNCHANGED failed
  /\ UNCHANGED <<cfgLimit, cap, run, mpc, mseen, limit, age, grants,
                 persisted, loaded, repos, next, quota, bk, files, listed,
                 fetches, clashed>>

\* net.rs:95-97: the response of the resource's GET: an error, or
\* File::create_new(path) is called
ResResponse(b, k) ==
  /\ At(b, k, "res_fetching")
  /\ \/ SetTask(b, k, EndTask("failed"))
     \/ SetTask(b, k, [Task(b, k) EXCEPT !.pc = "res_creating"])
  /\ UNCHANGED <<cfgLimit, cap, run, mpc, mseen, limit, age, grants, meta,
                 persisted, loaded, repos, next, quota, bk, fs, files, listed,
                 fetches, failed, clashed, tracked>>

\* net.rs:97: File::create_new(path) completes: an error if the file
\* exists or for another reason, else the empty file
ResCreated(b, k) ==
  /\ At(b, k, "res_creating")
  /\ \/ /\ SetTask(b, k, EndTask("failed"))
        /\ UNCHANGED files
     \/ /\ files[Head(Task(b, k).urls)] = "absent"
        /\ files' = [files EXCEPT ![Head(Task(b, k).urls)] = "partial"]
        /\ SetTask(b, k, [Task(b, k) EXCEPT !.pc = "res_writing"])
  /\ UNCHANGED <<cfgLimit, cap, run, mpc, mseen, limit, age, grants, meta,
                 persisted, loaded, repos, next, quota, bk, fs, listed,
                 fetches, failed, clashed, tracked>>

\* net.rs:98-102, main.rs:212-222: the stream is written and flushed, and
\* the next link, if any, is requested
ResWritten(b, k) ==
  /\ At(b, k, "res_writing")
  /\ \/ /\ SetTask(b, k, EndTask("failed"))
        /\ UNCHANGED files
     \/ /\ files' = [files EXCEPT ![Head(Task(b, k).urls)] = "complete"]
        /\ SetTask(b, k, AfterTrack(Tail(Task(b, k).urls)))
  /\ UNCHANGED <<cfgLimit, cap, run, mpc, mseen, limit, age, grants, meta,
                 persisted, loaded, repos, next, quota, bk, fs, listed,
                 fetches, failed, clashed, tracked>>

\* the store as it was loaded is what is written: the tracking is lost
SaveStale ==
  /\ mpc = "books"
  /\ \A b \in Books : ~Active(b)
  /\ next > repos
  /\ \/ /\ persisted' = [items |-> loaded]
        /\ mpc' = "saved"
     \/ /\ persisted' \in {persisted, EmptyStore}
        /\ mpc' = "failed"
  /\ UNCHANGED <<cfgLimit, cap, run, mseen, limit, age, grants, meta, loaded,
                 repos, next, quota, bk, dt, fs, files, listed, fetches,
                 failed, clashed, tracked>>

\* main.rs:235-240: every chunk is done, block_on returns Ok and
\* metadata.json is written. fs::write truncates the file before it writes:
\* when it fails the old file is left as it was or is cut short, and a file
\* that does not parse loads as the default store (main.rs:159-162).
Save ==
  /\ mpc = "books"
  /\ \A b \in Books : ~Active(b)
  /\ next > repos
  /\ \/ /\ persisted' = meta
        /\ mpc' = "saved"
     \/ /\ persisted' \in {persisted, EmptyStore}
        /\ mpc' = "failed"
  /\ UNCHANGED <<cfgLimit, cap, run, mseen, limit, age, grants, meta, loaded,
                 repos, next, quota, bk, dt, fs, files, listed, fetches,
                 failed, clashed, tracked>>

\* the process is killed before main has returned: its tasks, its limit and
\* its store are gone with it; the files it wrote stay as they are
Kill ==
  /\ mpc \in {"start", "cooling", "listing", "books"}
  /\ mpc' = "killed"
  /\ mseen' = 0
  /\ limit' = [requests |-> 0, win |-> 0]
  /\ age' = 0
  /\ grants' = 0
  /\ repos' = 0
  /\ next' = 1
  /\ quota' = 0
  /\ bk' = [b \in Books |-> IdleBook]
  /\ dt' = [b \in Books |-> <<>>]
  /\ UNCHANGED <<cfgLimit, cap, run, meta, persisted, loaded, fs, files,
                 listed, fetches, failed, clashed, tracked>>

\* main.rs:143-176: the program is started again: a new backup directory,
\* a new limit, and the store that metadata.json holds
Restart ==
  /\ mpc \in {"saved", "failed", "killed"}
  /\ run < cap.runs
  /\ run' = run + 1
  /\ mpc' = "start"
  /\ mseen' = 0
  /\ limit' = [requests |-> 0, win |-> 0]
  /\ age' = 0
  /\ grants' = 0
  /\ meta' = persisted
  /\ loaded' = persisted.items
  /\ repos' = 0
  /\ next' = 1
  /\ quota' = cap.docs
  /\ bk' = [b \in Books |-> IdleBook]
  /\ dt' = [b \in Books |-> <<>>]
  /\ fs' = [d \in Ids |-> NoFile]
  /\ files' = [n \in Names |-> "absent"]
  /\ listed' = {}
  /\ fetches' = [m \in Metas |-> 0]
  /\ failed' = {}
  /\ clashed' = {}
  /\ tracked' = <<>>
  /\ UNCHANGED <<cfgLimit, cap, persisted>>

Slots == 1..ChunkSize

Next ==
  \/ Tick
  \/ ReposCall
  \/ ReposWake
  \/ ReposResponse
  \/ StartBookChunk
  \/ \E b \in Books : MetasWake(b)
  \/ \E b \in Books : MetasResponse(b)
  \/ \E b \in Books : StartDocChunk(b)
  \/ \E b \in Books : FinishBook(b)
  \/ \E b \in Books, k \in Slots : DocWake(b, k)
  \/ \E b \in Books, k \in Slots : DocResponse(b, k)
  \/ \E b \in Books, k \in Slots : DocCreated(b, k)
  \/ \E b \in Books, k \in Slots : DocWritten(b, k)
  \/ \E b \in Books, k \in Slots : DocFlushed(b, k)
  \/ \E b \in Books, k \in Slots : ResResponse(b, k)
  \/ \E b \in Books, k \in Slots : ResCreated(b, k)
  \/ \E b \in Books, k \in Slots : ResWritten(b, k)
  \/ Save
  \/ Kill
  \/ Restart

Spec == Init /\ [][Next]_vars

\* ------------------------------------------------ the store on its own
\* MainMetadata::track_backup (store.rs:34-48), called on the store as it is
TrackCall(m) ==
  /\ Len(tracked) < MaxCalls
  /\ meta' = [meta EXCEPT !.items = TrackBackup(@, m)]
  /\ tracked' = Append(tracked, m)
  /\ UNCHANGED <<cfgLimit, cap, run, mpc, mseen, limit, age, grants,
                 persisted, loaded, repos, next, quota, bk, dt, fs, files,
                 listed, fetches, failed, clashed>>

StoreNext == \E m \in CallMetas : TrackCall(m)

\* the default store and any calls of track_backup on it
StoreSpec == Init /\ [][StoreNext]_vars

\* ------------------------------------------- more than one chunk
\* sizes under which a listing is longer than one chunk: more books than a
\* chunk holds; one book with more documents than a chunk holds; and one
\* small book with links, over several runs
ChunkCaps ==
  { [books |-> MaxChunkBooks, docs |-> MaxDocs, urls |-> 0, runs |-> 1],
    [books |-> 1, docs |-> MaxChunkDocs, urls |-> 0, runs |-> 1],
    [books |-> 1, docs |-> 1, urls |-> MaxUrls, runs |-> MaxRuns] }

ChunkInit ==
  /\ cfgLimit \in 0..MaxLimit
  /\ cap \in ChunkCaps
  /\ run = 1
  /\ persisted = EmptyStore
  /\ RunStart(EmptyStore)

\* the program under those sizes
ChunkSpec == ChunkInit /\ [][Next]_vars

\* ------------------------------------------------- a request that hangs
\* Client::new() sets no timeout (main.rs:156) and no request is wrapped in
\* one: a response may never come. Here it is the response of the first
\* request for a document of the first book that may stay out: the runtime
\* polls every other task that can go on (main.rs:178, join_all at
\* main.rs:185 and main.rs:193), every other request is answered, every
\* file operation completes and time passes. Nobody has to kill the
\* process or to start it again.
Hangs(b, k) == b = 1 /\ k = 1

Proceeds ==
  \/ Tick
  \/ ReposCall
  \/ ReposWake
  \/ ReposResponse
  \/ StartBookChunk
  \/ \E b \in Books : MetasWake(b)
  \/ \E b \in Books : MetasResponse(b)
  \/ \E b \in Books : StartDocChunk(b)
  \/ \E b \in Books : FinishBook(b)
  \/ \E b \in Books, k \in Slots : DocWake(b, k)
  \/ \E b \in Books, k \in Slots : ~Hangs(b, k) /\ DocResponse(b, k)
  \/ \E b \in Books, k \in Slots : DocCreated(b, k)
  \/ \E b \in Books, k \in Slots : DocWritten(b, k)
  \/ \E b \in Books, k \in Slots : DocFlushed(b, k)
  \/ \E b \in Books, k \in Slots : ResResponse(b, k)
  \/ \E b \in Books, k \in Slots : ResCreated(b, k)
  \/ \E b \in Books, k \in Slots : ResWritten(b, k)
  \/ Save

HangSpec == ChunkInit /\ [][Next]_vars /\ WF_vars(Proceeds)

\* every request is answered
AnsweredSpec ==
  /\ ChunkInit /\ [][Next]_vars
  /\ WF_vars(Proceeds \/ \E b \in Books, k \in Slots : DocResponse(b, k))


\* ------------------------------------------------------------ properties
\* the timestamps handed to track_backup for document d, in call order
StampsOf(d) ==
  LET c == SelectSeq(tracked, LAMBDA m : m.id = d)
  IN  [i \in DOMAIN c |-> c[i].updated_at]

\* the record of d in the store the run loaded, as a sequence of backups
PriorBackups(d) == IF d \in DOMAIN loaded THEN loaded[d].backups ELSE <<>>

\* C1: with limit >= 1, no more than limit requests are let through by the
\* gate within one window of one second (grants counts the requests let
\* through since the clock last moved)
RateCeiling == cfgLimit >= 1 => grants <= cfgLimit

\* C4: whenever a document's record is in the store and its file is on disk,
\* last_updated of the record is the updated_at of the content in the file
WatermarkInvariant ==
  \A d \in DOMAIN meta.items :
    fs[d].st = "flushed" => meta.items[d].last_updated = fs[d].ver

\* C5: needs_backup is false exactly when a record exists whose last_updated
\* is at or after the remote updated_at: true with no record, false for an
\* equal timestamp, true for a strictly newer one, false for an older one
StrictNewer ==
  \A m \in CallMetas :
    /\ m.id \notin DOMAIN meta.items => NeedsBackup(meta.items, m)
    /\ m.id \in DOMAIN meta.items =>
         LET w == meta.items[m.id].last_updated
         IN  /\ m.updated_at = w => ~NeedsBackup(meta.items, m)
             /\ m.updated_at > w => NeedsBackup(meta.items, m)
             /\ m.updated_at < w => ~NeedsBackup(meta.items, m)

StrictNewerWitness ==
  \E m1, m2, m3 \in CallMetas :
    /\ m1.id \in DOMAIN meta.items
    /\ m1.id = m2.id /\ m2.id = m3.id
    /\ m1.updated_at < meta.items[m1.id].last_updated
    /\ m2.updated_at = meta.items[m1.id].last_updated
    /\ m3.updated_at > meta.items[m1.id].last_updated
    /\ \E m4 \in CallMetas : m4.id \notin DOMAIN meta.items

\* C6: right after track_backup(m), needs_backup(m) is false, whatever the
\* store held before the call
TrackThenSkip ==
  /\ \A m \in CallMetas : ~NeedsBackup(TrackBackup(meta.items, m), m)
  /\ tracked # <<>> => ~NeedsBackup(meta.items, tracked[Len(tracked)])

TrackThenSkipWitness ==
  /\ Len(tracked) >= 2
  /\ tracked[Len(tracked)].id = tracked[Len(tracked) - 1].id
  /\ tracked[Len(tracked)].updated_at < tracked[Len(tracked) - 1].updated_at

\* C7: track_backup appends to the record of the id when there is one and
\* creates it otherwise: backups is the timestamps of the calls for the id
\* in call order, last_updated is the timestamp of the last call, and no
\* other record changes
AppendingUpsert ==
  /\ \A d \in Ids :
       IF StampsOf(d) = <<>>
         THEN /\ d \in DOMAIN meta.items <=> d \in DOMAIN loaded
              /\ d \in DOMAIN loaded => meta.items[d] = loaded[d]
         ELSE /\ d \in DOMAIN meta.items
              /\ meta.items[d].backups = PriorBackups(d) \o StampsOf(d)
              /\ meta.items[d].last_updated = StampsOf(d)[Len(StampsOf(d))]
  /\ \A m1, m2 \in CallMetas :
       m1.id = m2.id /\ m1.id \notin DOMAIN meta.items =>
         LET two == TrackBackup(TrackBackup(meta.items, m1), m2)
         IN  /\ two[m1.id].backups = <<m1.updated_at, m2.updated_at>>
             /\ two[m1.id].last_updated = m2.updated_at
             /\ DOMAIN two = DOMAIN meta.items \cup {m1.id}

AppendingUpsertWitness ==
  \E d \in Ids :
    /\ Len(StampsOf(d)) = 2
    /\ StampsOf(d)[1] < StampsOf(d)[2]
    /\ \E e \in DOMAIN meta.items : e # d

\* C2: track_backup is called for a document only once its file has been
\* created, written and flushed; a task that fails at any of its steps
\* changes no record of the store
TrackedFlushed ==
  /\ \A i \in DOMAIN tracked : fs[tracked[i].id].st = "flushed"
  /\ \A d \in DOMAIN meta.items :
       (d \notin DOMAIN loaded \/ meta.items[d] # loaded[d]) =>
         fs[d].st = "flushed"

TrackFollowsFlush ==
  (tracked' # tracked /\ run' = run) =>
    \E b \in Books, k \in Slots :
      /\ At(b, k, "flushing")
      /\ fs[dt[b][k].m.id].st = "written"
      /\ fs'[dt[b][k].m.id].st = "flushed"
      /\ tracked' = Append(tracked, dt[b][k].m)
      /\ failed' = failed

FailureNeverTracks ==
  (failed' # failed /\ run' = run) => meta' = meta /\ tracked' = tracked

WriteBeforeTrack ==
  /\ [] TrackedFlushed
  /\ [][TrackFollowsFlush /\ FailureNeverTracks]_vars

WriteBeforeTrackWitness ==
  /\ tracked # <<>>
  /\ \E m \in failed :
       /\ fs[m.id].st \in {"created", "written"}
       /\ m.id \notin DOMAIN meta.items

\* C3: a failing document task ends neither the run nor any other task, and
\* in the store the run saves every fetched document that did not fail is
\* tracked, while a document that failed and has no record is still due
SavedOutsideFailed ==
  \A m \in Metas :
    fetches[m] > 0 /\ m \notin failed =>
      /\ m.id \in DOMAIN persisted.items
      /\ persisted.items[m.id].last_updated = m.updated_at
      /\ \E i \in DOMAIN tracked : tracked[i] = m

FailedStillDue ==
  \A m \in failed :
    (m.id \notin DOMAIN loaded /\ StampsOf(m.id) = <<>>) =>
      NeedsBackup(persisted.items, m)

FailureIsLocal ==
  (failed' # failed /\ run' = run) =>
    /\ mpc' = mpc
    /\ bk' = bk
    /\ meta' = meta
    /\ \E b \in Books, k \in Slots :
         /\ k \in DOMAIN dt[b]
         /\ dt' = [dt EXCEPT ![b][k] = EndTask("failed")]

PartialFailureIsolation ==
  /\ [] (mpc = "saved" => SavedOutsideFailed /\ FailedStillDue)
  /\ [][FailureIsLocal]_vars

PartialFailureIsolationWitness ==
  /\ mpc = "saved"
  /\ \E m1, m2 \in Metas :
       /\ m1.id # m2.id
       /\ m1 \in failed /\ m1.id \notin DOMAIN persisted.items
       /\ fetches[m2] > 0 /\ m2 \notin failed
       /\ m2.id \in DOMAIN persisted.items

\* C8: a document task that finds doc<id>.json in place fails without
\* touching the file and without tracking, fetchResource likewise leaves a
\* file in place as it is, and no content once written changes within a run
DocNoOverwrite ==
  \A b \in Books, k \in Slots :
    (/\ At(b, k, "creating")
     /\ mpc' # "killed"
     /\ fs[dt[b][k].m.id].st # "absent"
     /\ dt'[b][k] # dt[b][k]) =>
        /\ fs' = fs
        /\ meta' = meta
        /\ tracked' = tracked
        /\ dt'[b][k] = EndTask("failed")

ResNoOverwrite ==
  \A b \in Books, k \in Slots :
    (/\ At(b, k, "res_creating")
     /\ mpc' # "killed"
     /\ files[dt[b][k].urls[1]] # "absent"
     /\ dt'[b][k] # dt[b][k]) =>
        /\ files' = files
        /\ dt'[b][k] = EndTask("failed")

ContentsKept ==
  run' = run =>
    /\ \A d \in Ids : fs[d].st \in {"written", "flushed"} =>
                        fs'[d].ver = fs[d].ver
    /\ \A n \in Names : files[n] = "complete" => files'[n] = "complete"

NoOverwrite == [][DocNoOverwrite /\ ResNoOverwrite /\ ContentsKept]_vars

NoOverwriteWitness ==
  \E m \in clashed :
    /\ fs[m.id].st = "flushed"
    /\ m.id \in DOMAIN meta.items
    /\ meta.items[m.id].last_updated # m.updated_at

\* C9: a document is requested only if the listing names it and
\* needs_backup holds for it when its chunk is filtered, which it then did
\* in the store the run loaded as well; a file is created only for a
\* requested document; and by the end of the run every listed document
\* with no record in the loaded store has been requested
FetchedWereDue ==
  /\ \A m \in Metas :
       fetches[m] > 0 => m \in listed /\ NeedsBackup(loaded, m)
  /\ \A d \in Ids :
       fs[d].st # "absent" => \E m \in Metas : m.id = d /\ fetches[m] > 0
  /\ mpc \in {"saved", "failed"} =>
       \A m \in listed :
         m.id \notin DOMAIN loaded =>
           \E m2 \in Metas : m2.id = m.id /\ fetches[m2] > 0

TasksOnlyDue ==
  \A b \in Books :
    (run' = run /\ bk[b].pc = "docs" /\ bk'[b].left < bk[b].left) =>
      \A k \in DOMAIN dt'[b] :
        /\ NeedsBackup(meta.items, dt'[b][k].m)
        /\ dt'[b][k].m \in listed'

FetchOnlyTask ==
  \A m \in Metas :
    (fetches'[m] > fetches[m] /\ run' = run) =>
      \E b \in Books : \E k \in DOMAIN dt'[b] :
        dt'[b][k].m = m /\ dt'[b][k].pc = "fetching"

IncrementalFetch ==
  [] FetchedWereDue /\ [][TasksOnlyDue /\ FetchOnlyTask]_vars

IncrementalFetchWitness ==
  /\ mpc = "saved"
  /\ \E a, b \in listed :
       /\ a.id # b.id
       /\ a.id \in DOMAIN loaded /\ loaded[a.id].last_updated = a.updated_at
       /\ b.id \notin DOMAIN loaded
       /\ fetches[a] = 0 /\ fetches[b] = 1
       /\ fs[a.id].st = "absent" /\ fs[b.id].st = "flushed"

\* C10: a run that starts from an empty store, in which nothing fails and
\* the listing names each document once, saves exactly one record per
\* listed document, with last_updated the listed updated_at and backups
\* that one timestamp, after one request and one flushed file per document
CleanRun ==
  /\ failed = {}
  /\ \A b \in Books : bk[b].pc # "failed"
  /\ \A m1, m2 \in listed : m1.id = m2.id => m1 = m2

EndToEnd ==
  (mpc = "saved" /\ loaded = EmptyItems /\ CleanRun) =>
    /\ DOMAIN persisted.items = {m.id : m \in listed}
    /\ \A m \in listed :
         /\ persisted.items[m.id] =
              [last_updated |-> m.updated_at, backups |-> <<m.updated_at>>]
         /\ fetches[m] = 1
         /\ fs[m.id].st = "flushed"

EndToEndWitness ==
  /\ mpc = "saved" /\ loaded = EmptyItems /\ CleanRun
  /\ repos = 1
  /\ \E a, b \in listed :
       /\ a.id # b.id
       /\ a.updated_at < b.updated_at
       /\ DOMAIN persisted.items = {a.id, b.id}


\* the GETs that were sent and have not been answered, for the run at
\* position p with books bs and document tasks ts
Outstanding(p, bs, ts) ==
  (IF p = "listing" THEN 1 ELSE 0)
  + Cardinality({b \in Books : bs[b].pc = "listing"})
  + Cardinality({x \in Books \X Slots :
       /\ x[2] \in DOMAIN ts[x[1]]
       /\ ts[x[1]][x[2]].pc \in {"fetching", "res_fetching"}})

\* C11: every HTTP GET is sent by a call of cool that returned for it: a
\* step that sends n requests is a step in which n calls of cool return
GatedStep ==
  Outstanding(mpc', bk', dt') > Outstanding(mpc, bk, dt) =>
    grants' - grants = Outstanding(mpc', bk', dt') - Outstanding(mpc, bk, dt)

EveryRequestGated == [][GatedStep]_vars

\* C12: at most ChunkSize book tasks are outstanding, all of the chunk that
\* was started last, and at most ChunkSize document tasks within each; a
\* chunk of books or of documents starts only when every task of the chunk
\* before it has finished, with or without an error
Unfinished(b) == {k \in DOMAIN dt[b] : ~Finished(dt[b][k])}

ChunkBound ==
  /\ Cardinality({b \in Books : Active(b)}) <= ChunkSize
  /\ \A b \in Books :
       /\ Active(b) => next - ChunkSize <= b /\ b < next
       /\ Len(dt[b]) <= ChunkSize
       /\ Cardinality(Unfinished(b)) <= ChunkSize
       /\ Unfinished(b) # {} => bk[b].pc = "docs"

ChunkAfterChunk ==
  /\ (next' > next /\ run' = run) =>
       \A b \in Books : ~Active(b) /\ Unfinished(b) = {}
  /\ \A b \in Books :
       (bk[b].pc = "docs" /\ bk'[b].pc = "docs" /\ bk'[b].left < bk[b].left) =>
         Unfinished(b) = {}

BoundedConcurrency == [] ChunkBound /\ [][ChunkAfterChunk]_vars

BoundedConcurrencyWitness ==
  /\ cap.docs = MaxChunkDocs
  /\ \E b \in Books :
       /\ bk[b].pc = "docs" /\ bk[b].left = 0
       /\ quota = 0
       /\ Unfinished(b) # {}
       /\ Len(tracked) + Cardinality(failed) >= 1

\* C13: metadata.json is written at most once in a run, and only when every
\* chunk of books has completed; until then, and when the process is killed
\* before, it holds what the run loaded, so the run after a killed one
\* loads the same store and needs_backup holds for every document for which
\* it held at the start of the killed run
UnsavedIsLoaded ==
  mpc \in {"start", "cooling", "listing", "books", "killed"} =>
    persisted = [items |-> loaded]

WrittenAtTheEnd ==
  persisted' # persisted =>
    /\ mpc = "books" /\ mpc' \in {"saved", "failed"}
    /\ next > repos
    /\ \A b \in Books : ~Active(b) /\ Unfinished(b) = {}

LoadAfterKill ==
  (mpc = "killed" /\ mpc' = "start") =>
    /\ meta' = [items |-> loaded]
    /\ \A m \in Metas : NeedsBackup(loaded, m) => NeedsBackup(meta'.items, m)

NoIncrementalPersistence ==
  [] UnsavedIsLoaded /\ [][WrittenAtTheEnd /\ LoadAfterKill]_vars

NoIncrementalPersistenceWitness ==
  /\ mpc = "killed"
  /\ \E d, e \in Ids :
       /\ fs[d].st = "flushed" /\ StampsOf(d) # <<>>
       /\ d \notin DOMAIN persisted.items
       /\ fs[e].st = "written" /\ StampsOf(e) = <<>>

\* C14: a failed listing, of the books or of a book's documents, ends
\* nothing but the subtree under it: the run goes on towards the write of
\* metadata.json, and the sibling books and their document tasks are left
\* as they are
BookListingIsolated ==
  (mpc = "listing" /\ mpc' \notin {"listing", "killed"}) => mpc' = "books"

DocListingIsolated ==
  \A b \in Books :
    (bk[b].pc = "listing" /\ bk'[b].pc = "failed") =>
      /\ mpc' = mpc
      /\ meta' = meta
      /\ dt' = dt
      /\ \A c \in Books \ {b} : bk'[c] = bk[c]

ListingFailureIsolated == [][BookListingIsolated /\ DocListingIsolated]_vars

\* the part of C14 on the listing of a book's documents
DocListingFailureIsolated == [][DocListingIsolated]_vars

\* a run that was saved with one book's listing failed and the documents of
\* a sibling in a later chunk tracked
DocListingFailureSeen ==
  /\ mpc = "saved"
  /\ \E b, c \in Books :
       /\ bk[b].pc = "failed"
       /\ c > b + ChunkSize - 1
       /\ bk[c].pc = "done"
  /\ tracked # <<>>
  /\ persisted = meta

\* ---------------------------------------------------------------- C15
\* A document of which the backup file is being created came in a 2xx
\* response.
CreatedFrom2xx ==
  \A b \in Books : \A k \in DOMAIN dt[b] :
    dt[b][k].pc = "creating" => dt[b][k].status = "2xx"

\* C15: a response with a non-2xx status is a failure whatever its body:
\* no step creates the backup file of a document that came with such a
\* status, and no document with such a status is on its way to a file.
Non2xxIsFailure ==
  /\ [] CreatedFrom2xx
  /\ [][\A b \in Books : \A k \in DOMAIN dt[b] :
          (/\ dt[b][k].pc = "creating" /\ dt[b][k].status = "other"
           /\ mpc' # "killed" /\ dt'[b][k] # dt[b][k])
          => fs'[dt[b][k].m.id] = fs[dt[b][k].m.id]]_vars

\* ---------------------------------------------------------------- C16
\* main has returned, or the process was killed
RunOver == mpc \in {"saved", "failed", "killed"}

\* a chunk is running and a later chunk waits for its end: books beyond
\* the running chunk of books, or documents of a book beyond its running
\* chunk of documents
LaterChunkWaits ==
  \/ next <= repos /\ \E b \in Books : Active(b)
  \/ \E b \in Books : bk[b].pc = "docs" /\ bk[b].left > 0 /\ Unfinished(b) # {}

\* C16: a request that never completes delays its own chunk only: a chunk
\* that waits behind the running one is started all the same (or the
\* process is killed), and the run that is not killed reaches the write of
\* metadata.json.
HangContained ==
  /\ [](LaterChunkWaits => <>(~LaterChunkWaits))
  /\ [](LaterChunkWaits => <>RunOver)

\* ---------------------------------------------------------------- C17
\* how long sleep_until(i + 1s) suspends a caller that read the window
\* `seen`, when the limit is lim and the current window is a old
WaitAhead(seen, lim, a) ==
  IF seen = lim.win /\ a < Second THEN Second - a ELSE 0

\* a step in which the run's own call of cool, a book's or a document
\* task's is suspended leaves the caller a full second to wait
SuspendedForASecond ==
  /\ (mpc' = "cooling" /\ mpc # "cooling")
       => WaitAhead(mseen', limit', age') = Second
  /\ \A b \in Books :
       (bk'[b].pc = "cooling" /\ bk[b].pc # "cooling")
         => WaitAhead(bk'[b].seen, limit', age') = Second
  /\ \A b \in Books : \A k \in DOMAIN dt'[b] :
       (/\ dt'[b][k].pc = "cooling"
        /\ (k \in DOMAIN dt[b] => dt[b][k].pc # "cooling"))
         => WaitAhead(dt'[b][k].seen, limit', age') = Second

\* no call of cool returns without having been suspended
NoneGrantedAtOnce ==
  /\ mpc = "start" => mpc' # "listing"
  /\ \A b \in Books : bk[b].pc = "idle" => bk'[b].pc # "listing"
  /\ \A b \in Books : \A k \in DOMAIN dt'[b] :
       (k \in DOMAIN dt[b] => Finished(dt[b][k])) => dt'[b][k].pc # "fetching"

\* C17: with limit = 0 every call of cool is suspended, and suspended for a
\* full second, whenever the call arrives and whoever else waits.
ZeroLimitAlwaysWaits ==
  [][cfgLimit = 0 => NoneGrantedAtOnce /\ SuspendedForASecond]_vars

\* with limit = 0 no call of cool returns without having been suspended
ZeroLimitNeverAtOnce == [][cfgLimit = 0 => NoneGrantedAtOnce]_vars

\* ---------------------------------------------------------------- C18
\* C18: within a run track_backup is called at most once for a document
\* id, however often the id is listed and however the tasks interleave, so
\* the backups of a record are those the run loaded and at most one more.
OneTrackPerRun ==
  /\ \A d \in Ids : Len(StampsOf(d)) <= 1
  /\ \A d \in DOMAIN meta.items :
       Len(meta.items[d].backups) = Len(PriorBackups(d)) + Len(StampsOf(d))

\* a run of more than one chunk of documents has ended in which an id was
\* listed with both of its timestamps, a task for it found the file of
\* another in place, and the id was tracked once
OneTrackPerRunWitness ==
  /\ mpc = "saved"
  /\ cap.docs = MaxChunkDocs
  /\ \E m \in clashed :
       /\ Len(StampsOf(m.id)) = 1
       /\ Cardinality({x \in listed : x.id = m.id}) >= 2

\* ---------------------------------------------------------------- C19
\* every record of old is in new, with last_updated at or above the old one
NoRegress(old, new) ==
  \A d \in DOMAIN old :
    d \in DOMAIN new /\ new[d].last_updated >= old[d].last_updated

\* fs::write of metadata.json has failed (main.rs:239)
WriteFails == mpc = "books" /\ mpc' = "failed"

\* C19: over runs that load what the run before them has persisted, and
\* for any timestamps in the listings, last_updated of an id never
\* decreases and no record is removed: not in the store of a run while it
\* runs, not in metadata.json from one write to the next, and the store a
\* run holds is never behind the file.
WatermarkNeverRegresses ==
  /\ [] NoRegress(persisted.items, meta.items)
  /\ [][run' = run => NoRegress(meta.items, meta'.items)]_vars
  /\ [][~WriteFails => NoRegress(persisted.items, persisted'.items)]_vars

\* a later run has listed an id with a timestamp older than the watermark
\* it loaded and has written metadata.json with the watermark in place
WatermarkNeverRegressesWitness ==
  /\ run > 1
  /\ mpc = "saved"
  /\ \E m \in listed :
       /\ m.id \in DOMAIN loaded
       /\ m.updated_at < loaded[m.id].last_updated
       /\ persisted.items[m.id].last_updated = loaded[m.id].last_updated

\* ---------------------------------------------------------------- C20
WellFormed(items) ==
  \A d \in DOMAIN items :
    /\ items[d].backups # <<>>
    /\ items[d].backups[Len(items[d].backups)] = items[d].last_updated

\* C20: from the empty store on, every record of items has a backups
\* sequence that is not empty and ends with the record's last_updated, in
\* the store in memory and in the one persisted.
RecordsWellFormed == WellFormed(meta.items) /\ WellFormed(persisted.items)

\* a record tracked three times, the last time with a timestamp below an
\* earlier one
RecordsWellFormedWitness ==
  \E d \in DOMAIN meta.items :
    /\ Len(meta.items[d].backups) = MaxCalls
    /\ meta.items[d].last_updated < meta.items[d].backups[1]

====
